---------------------------- MODULE Spec2Model ----------------------------
(***************************************************************************)
(* Model of upload.py (lrclib-importer): string normalisation, local LRC   *)
(* matching, LRC content parsing, the process_track pipeline and the       *)
(* relocation of processed files.                                          *)
(*                                                                         *)
(* Strings are sequences of characters.  A character is a one-character    *)
(* TLA+ string; a non-ASCII character is written as a named atom:          *)
(*   "FWLP" U+FF08  "FWRP" U+FF09  "FWLB" U+3010  "FWRB" U+3011            *)
(*   "FWCOLON" U+FF1A  "IDSTOP" U+3002  "FWCOMMA" U+FF0C  "FWBANG" U+FF01  *)
(*   "FWQ" U+FF1F  "IDSP" U+3000 (ideographic space)                       *)
(*   "CJK_HE" U+548C  "IDCOMMA" U+3001  "TIMES" U+00D7                     *)
(*   "CJK_CHUN" U+7EAF "CJK_YIN" U+97F3 "CJK_YUE" U+4E50 (simplified)      *)
(*   "CJK_QING" U+8BF7 "CJK_XIN" U+6B23 "CJK_SHANG" U+8D4F                 *)
(*   "CJK_CHUN_T" U+7D14 "CJK_YUE_T" U+6A02 "CJK_QING_T" U+8ACB            *)
(*   "CJK_SHANG_T" U+8CDE (traditional)                                    *)
(*   "KA_I" "KA_N" "KA_SU" "KA_TO" "KA_U" "KA_RU" "KA_ME" "KA_TA": the     *)
(*   katakana of U+30A4 U+30F3 U+30B9 U+30C8 U+30A5 U+30EB U+30E1 U+30BF   *)
(***************************************************************************)
EXTENDS Integers, Sequences, FiniteSets, TLC

VARIABLES
    \* normalisation harness
    nIn, nFn, nOut,
    \* parse_lrc_file
    raw, lines, pos, synced_lines, plain_lines, is_pure_music, ppc, parsed,
    \* find_lrc_for_track
    fTrack, fPool, fCands, fpc, fIn, fRet,
    \* main / process_track / move_after_done
    auto_yes, dry_run, fs, dirs, fs0, fsStart, metas, meta, pc,
    branch, cached, ext, use_external, lrc_path, cands, asked, previewed,
    uploads, upload_ok, moved, answer, payload, outcome

normVars  == <<nIn, nFn, nOut>>
parseVars == <<raw, lines, pos, synced_lines, plain_lines, is_pure_music, ppc, parsed>>
findVars  == <<fTrack, fPool, fCands, fpc, fIn, fRet>>
mainVars  == <<auto_yes, dry_run, fs, dirs, fs0, fsStart, metas, meta,
               pc, branch, cached, ext, use_external, lrc_path, cands, asked,
               previewed, uploads, upload_ok, moved, answer, payload, outcome>>
vars == <<normVars, parseVars, findVars, mainVars>>

(***************************************************************************)
(* Sequence helpers                                                        *)
(***************************************************************************)
RECURSIVE SeqsUpTo(_, _)
SeqsUpTo(S, n) ==
    IF n = 0 THEN {<<>>}
    ELSE LET shorter == SeqsUpTo(S, n - 1)
         IN  shorter \cup {Append(s, c) : s \in shorter, c \in S}

Slice(s, i, j) == IF j < i THEN <<>> ELSE SubSeq(s, i, j)

\* s[i..] starts with t
StartsAt(s, i, t) ==
    /\ i + Len(t) - 1 <= Len(s)
    /\ \A k \in 1..Len(t) : s[i + k - 1] = t[k]

\* Python: t in s
Contains(s, t) == \E i \in 1..(Len(s) - Len(t) + 1) : StartsAt(s, i, t)

(***************************************************************************)
(* Character classes                                                       *)
(***************************************************************************)
UpperSeq == <<"A","B","C","D","E","F","G","H","I","J","K","L","M",
              "N","O","P","Q","R","S","T","U","V","W","X","Y","Z">>
LowerSeq == <<"a","b","c","d","e","f","g","h","i","j","k","l","m",
              "n","o","p","q","r","s","t","u","v","w","x","y","z">>
Digits == {"0","1","2","3","4","5","6","7","8","9"}
AsciiLetters == {UpperSeq[i] : i \in 1..26} \cup {LowerSeq[i] : i \in 1..26}
CJKChars == {"CJK_HE", "CJK_CHUN", "CJK_YIN", "CJK_YUE", "CJK_QING",
             "CJK_XIN", "CJK_SHANG", "CJK_CHUN_T", "CJK_YUE_T",
             "CJK_QING_T", "CJK_SHANG_T"}
Katakana == {"KA_I", "KA_N", "KA_SU", "KA_TO", "KA_U", "KA_RU", "KA_ME", "KA_TA"}

\* str.isspace() / regex \s
IsSpace(c) == c \in {" ", "\t", "IDSP"}

\* regex \w on str patterns: letters (CJK ideographs included), digits, "_"
IsWord(c) == c \in AsciiLetters \cup Digits \cup CJKChars \cup Katakana \cup {"_"}

\* str.lower(), one character
LowerChar(c) ==
    IF \E i \in 1..26 : UpperSeq[i] = c
    THEN LowerSeq[CHOOSE i \in 1..26 : UpperSeq[i] = c]
    ELSE c

lower(s) == [i \in 1..Len(s) |-> LowerChar(s[i])]

\* str.strip()
strip(s) ==
    IF \A i \in 1..Len(s) : IsSpace(s[i]) THEN <<>>
    ELSE LET a == CHOOSE i \in 1..Len(s) :
                      /\ ~IsSpace(s[i])
                      /\ \A k \in 1..(i - 1) : IsSpace(s[k])
             b == CHOOSE i \in 1..Len(s) :
                      /\ ~IsSpace(s[i])
                      /\ \A k \in (i + 1)..Len(s) : IsSpace(s[k])
         IN  SubSeq(s, a, b)

\* re.sub(<class>+, " ", s): every maximal run of characters of the class
\* becomes one space
InClass(cls, c) == IF cls = "space" THEN IsSpace(c) ELSE ~IsWord(c)

RECURSIVE SubRuns(_, _, _)
SubRuns(cls, s, i) ==
    IF i > Len(s) THEN <<>>
    ELSE IF InClass(cls, s[i])
         THEN IF i > 1 /\ InClass(cls, s[i - 1])
              THEN SubRuns(cls, s, i + 1)
              ELSE <<" ">> \o SubRuns(cls, s, i + 1)
         ELSE <<s[i]>> \o SubRuns(cls, s, i + 1)

\* re.sub(r"\s+", " ", s)
CollapseSpaces(s) == SubRuns("space", s, 1)

\* re.sub(r"[^\w\u4e00-\u9fa5]+", " ", s)
NonWordToSpace(s) == SubRuns("nonword", s, 1)

(***************************************************************************)
(* normalize_name                                                          *)
(***************************************************************************)
\* the replacements table
ReplaceChar(c) ==
    CASE c = "FWLP"    -> "("
      [] c = "FWRP"    -> ")"
      [] c = "FWLB"    -> "["
      [] c = "FWRB"    -> "]"
      [] c = "FWCOLON" -> ":"
      [] c = "IDSTOP"  -> "."
      [] c = "FWCOMMA" -> ","
      [] c = "FWBANG"  -> "!"
      [] c = "FWQ"     -> "?"
      [] OTHER         -> c

normalize_name(s) ==
    LET s1 == lower(strip(s))
        s2 == [i \in 1..Len(s1) |-> ReplaceChar(s1[i])]
    IN  CollapseSpaces(s2)

(***************************************************************************)
(* normalize_title_loose                                                   *)
(***************************************************************************)
IsOpener(c) == c \in {"(", "FWLP", "FWLB", "["}
IsCloser(c) == c \in {")", "FWRP", "FWRB", "]"}

\* re.sub(r"[ ( FWLP FWLB [ ].*?[ ) FWRP FWRB ] ]", "", s)
RECURSIVE StripBrackets(_, _)
StripBrackets(s, i) ==
    IF i > Len(s) THEN <<>>
    ELSE IF IsOpener(s[i]) /\ \E j \in (i + 1)..Len(s) : IsCloser(s[j])
         THEN LET j == CHOOSE j \in (i + 1)..Len(s) :
                           /\ IsCloser(s[j])
                           /\ \A k \in (i + 1)..(j - 1) : ~IsCloser(s[k])
              IN  StripBrackets(s, j + 1)
         ELSE <<s[i]>> \o StripBrackets(s, i + 1)

\* the alternatives of (remix|remaster|live|version|ver\.?), in order;
\* ver\.? is the greedy pair "ver." then "ver"
SuffixTokens == << <<"r","e","m","i","x">>,
                   <<"r","e","m","a","s","t","e","r">>,
                   <<"l","i","v","e">>,
                   <<"v","e","r","s","i","o","n">>,
                   <<"v","e","r",".">>,
                   <<"v","e","r">> >>

\* re.sub(r"(remix|remaster|live|version|ver\.?)", "", s)
RECURSIVE StripTokens(_, _)
StripTokens(s, i) ==
    IF i > Len(s) THEN <<>>
    ELSE IF \E t \in 1..Len(SuffixTokens) : StartsAt(s, i, SuffixTokens[t])
         THEN LET t == CHOOSE t \in 1..Len(SuffixTokens) :
                           /\ StartsAt(s, i, SuffixTokens[t])
                           /\ \A u \in 1..(t - 1) : ~StartsAt(s, i, SuffixTokens[u])
              IN  StripTokens(s, i + Len(SuffixTokens[t]))
         ELSE <<s[i]>> \o StripTokens(s, i + 1)

normalize_title_loose(s) ==
    LET s1 == strip(lower(s))
        s2 == StripBrackets(s1, 1)
        s3 == StripTokens(s2, 1)
        s4 == NonWordToSpace(s3)
    IN  strip(CollapseSpaces(s4))

(***************************************************************************)
(* Normalisation harness: an input string, the function applied to it,     *)
(* and the successive results of applying the function again to its own    *)
(* result.                                                                 *)
(***************************************************************************)
MaxNormLen == 3
MaxApply == 2

NormAlphabet == {"v", "e", "r", "V", "(", ")", " ", "FWLP", "-"}

TokenSet == {SuffixTokens[t] : t \in 1..Len(SuffixTokens)}

\* a token, or a bracketed span, set inside a token
Splices ==
    UNION { { Slice(t, 1, i) \o mid \o Slice(t, i + 1, Len(t)) : i \in 0..Len(t) } :
            t \in TokenSet,
            mid \in TokenSet \cup { <<"(", "x", ")">>, <<"FWLB", "FWRB">>, <<" ">>, <<"-">> } }

NormInputs == SeqsUpTo(NormAlphabet, MaxNormLen) \cup Splices

NormIdle == nIn = <<>> /\ nFn = "none" /\ nOut = <<>>

NormInit ==
    /\ nIn \in NormInputs
    /\ nFn \in {"normalize_name", "normalize_title_loose"}
    /\ nOut = <<>>

NormArg == IF nOut = <<>> THEN nIn ELSE nOut[Len(nOut)]

ApplyNormalizeName ==
    /\ nFn = "normalize_name"
    /\ Len(nOut) < MaxApply
    /\ nOut' = Append(nOut, normalize_name(NormArg))
    /\ UNCHANGED <<nIn, nFn>>

ApplyNormalizeTitle ==
    /\ nFn = "normalize_title_loose"
    /\ Len(nOut) < MaxApply
    /\ nOut' = Append(nOut, normalize_title_loose(NormArg))
    /\ UNCHANGED <<nIn, nFn>>

(***************************************************************************)
(* LRC content: TAG_RE, CREDIT_LINE_RE, PURE_MUSIC_KEYWORDS                *)
(***************************************************************************)
IsDigitAt(s, i) == i <= Len(s) /\ s[i] \in Digits
CharAt(s, i, c) == i <= Len(s) /\ s[i] = c

\* "[dd:dd" at s[i..i+5]
StampHeadAt(s, i) ==
    /\ CharAt(s, i, "[") /\ IsDigitAt(s, i + 1) /\ IsDigitAt(s, i + 2)
    /\ CharAt(s, i + 3, ":") /\ IsDigitAt(s, i + 4) /\ IsDigitAt(s, i + 5)

\* TAG_RE = \[\d{2}:\d{2}(?:\.\d{1,3})?\] : the length of its match at s[i],
\* 0 when it does not match there
TagLenAt(s, i) ==
    IF ~StampHeadAt(s, i) THEN 0
    ELSE IF CharAt(s, i + 6, "]") THEN 7
    ELSE IF CharAt(s, i + 6, ".") /\
            \E k \in 1..3 : /\ \A d \in 1..k : IsDigitAt(s, i + 6 + d)
                            /\ CharAt(s, i + 7 + k, "]")
         THEN LET k == CHOOSE k \in 1..3 :
                           /\ \A d \in 1..k : IsDigitAt(s, i + 6 + d)
                           /\ CharAt(s, i + 7 + k, "]")
              IN  8 + k
         ELSE 0

\* TAG_RE.sub("", s)
RECURSIVE TagSub(_, _)
TagSub(s, i) ==
    IF i > Len(s) THEN <<>>
    ELSE IF TagLenAt(s, i) > 0 THEN TagSub(s, i + TagLenAt(s, i))
         ELSE <<s[i]>> \o TagSub(s, i + 1)

\* the lengths L such that s[1..L] matches the head of CREDIT_LINE_RE,
\* ^\[\d{2}:\d{2}(?:\.\d{1,3}(?:-\d+)?)?\]
CreditStampLens(s) ==
    { L \in 7..Len(s) :
        /\ StampHeadAt(s, 1)
        /\ s[L] = "]"
        /\ \/ L = 7
           \/ /\ CharAt(s, 7, ".")
              /\ \E k \in 1..3 :
                    /\ \A d \in 1..k : IsDigitAt(s, 7 + d)
                    /\ \/ L = 8 + k
                       \/ /\ CharAt(s, 8 + k, "-")
                          /\ L >= 10 + k
                          /\ \A d \in (9 + k)..(L - 1) : IsDigitAt(s, d) }

\* r matches \s*[^:\s]+?\s*[:FWCOLON]\s*.+$
CreditRest(r) ==
    \E a \in 0..Len(r), b \in 1..Len(r), c \in 1..Len(r) :
        /\ a < b /\ b < c /\ c < Len(r)
        /\ \A k \in 1..a : IsSpace(r[k])
        /\ \A k \in (a + 1)..b : r[k] # ":" /\ ~IsSpace(r[k])
        /\ \A k \in (b + 1)..(c - 1) : IsSpace(r[k])
        /\ r[c] \in {":", "FWCOLON"}

\* CREDIT_LINE_RE.match(s)
IsCreditLine(s) ==
    \E L \in CreditStampLens(s) : CreditRest(Slice(s, L + 1, Len(s)))

\* re.match(r"^\[[a-zA-Z]{2,3}:.+\]$", s)
IsMetaTagLine(s) ==
    \E n \in 2..3 :
        /\ Len(s) >= n + 4
        /\ s[1] = "["
        /\ \A k \in 2..(n + 1) : s[k] \in AsciiLetters
        /\ s[n + 2] = ":"
        /\ s[Len(s)] = "]"

\* PURE_MUSIC_KEYWORDS, each already kw.lower()
PURE_MUSIC_KEYWORDS ==
    << <<"CJK_CHUN", "CJK_YIN", "CJK_YUE", "FWCOMMA", "CJK_QING", "CJK_XIN", "CJK_SHANG">>,
       <<"CJK_CHUN_T", "CJK_YIN", "CJK_YUE_T", "FWCOMMA", "CJK_QING_T", "CJK_XIN", "CJK_SHANG_T">>,
       <<"CJK_CHUN_T", "CJK_YIN", "CJK_YUE_T", " ", "CJK_QING_T", "CJK_XIN", "CJK_SHANG_T">>,
       <<"CJK_CHUN_T", "CJK_YIN", "CJK_YUE_T">>,
       <<"i", "n", "s", "t", "r", "u", "m", "e", "n", "t", "a", "l">>,
       <<"KA_I", "KA_N", "KA_SU", "KA_TO", "KA_U", "KA_RU", "KA_ME", "KA_N", "KA_TA", "KA_RU">> >>

\* s_no_tag = TAG_RE.sub("", s).strip().lower(), and the keyword loop
HasPureMusicKeyword(s) ==
    LET s_no_tag == lower(strip(TagSub(s, 1)))
    IN  \E k \in 1..Len(PURE_MUSIC_KEYWORDS) : Contains(s_no_tag, PURE_MUSIC_KEYWORDS[k])

(***************************************************************************)
(* Text to lines and back                                                  *)
(***************************************************************************)
\* raw.replace("\r\n", "\n").replace("\r", "\n")
RECURSIVE NormalizeNewlines(_, _)
NormalizeNewlines(t, i) ==
    IF i > Len(t) THEN <<>>
    ELSE IF t[i] = "\r"
         THEN <<"\n">> \o NormalizeNewlines(t, IF CharAt(t, i + 1, "\n") THEN i + 2 ELSE i + 1)
         ELSE <<t[i]>> \o NormalizeNewlines(t, i + 1)

\* str.splitlines() of a text whose only line boundary is "\n"
RECURSIVE SplitLinesFrom(_, _, _)
SplitLinesFrom(t, i, cur) ==
    IF i > Len(t) THEN (IF cur = <<>> THEN <<>> ELSE <<cur>>)
    ELSE IF t[i] = "\n" THEN <<cur>> \o SplitLinesFrom(t, i + 1, <<>>)
         ELSE SplitLinesFrom(t, i + 1, Append(cur, t[i]))

splitlines(t) == SplitLinesFrom(t, 1, <<>>)

\* sep.join(parts)
RECURSIVE join(_, _)
join(sep, parts) ==
    IF parts = <<>> THEN <<>>
    ELSE IF Len(parts) = 1 THEN parts[1]
         ELSE parts[1] \o sep \o join(sep, Tail(parts))

(***************************************************************************)
(* parse_lrc_file                                                          *)
(***************************************************************************)
\* the loop body with the credit test moved before the keyword test
ScanBodyCreditFirst(line, st) ==
    LET s    == strip(line)
        pure == st.is_pure_music \/ HasPureMusicKeyword(s)
    IN  IF s = <<>>
        THEN [synced_lines  |-> Append(st.synced_lines, <<>>),
              plain_lines   |-> Append(st.plain_lines, <<>>),
              is_pure_music |-> st.is_pure_music]
        ELSE IF IsCreditLine(s)
        THEN st
        ELSE IF IsMetaTagLine(s)
        THEN [synced_lines  |-> Append(st.synced_lines, line),
              plain_lines   |-> st.plain_lines,
              is_pure_music |-> pure]
        ELSE [synced_lines  |-> Append(st.synced_lines, line),
              plain_lines   |-> Append(st.plain_lines, strip(TagSub(s, 1))),
              is_pure_music |-> pure]

\* the body of "for line in raw.splitlines()", on the accumulators
\* st = [synced_lines, plain_lines, is_pure_music]
ScanBody(line, st) ==
    LET s    == strip(line)
        pure == st.is_pure_music \/ HasPureMusicKeyword(s)
    IN  IF s = <<>>
        THEN [synced_lines  |-> Append(st.synced_lines, <<>>),
              plain_lines   |-> Append(st.plain_lines, <<>>),
              is_pure_music |-> st.is_pure_music]
        ELSE IF IsCreditLine(s)
        THEN [st EXCEPT !.is_pure_music = pure]
        ELSE IF IsMetaTagLine(s)
        THEN [synced_lines  |-> Append(st.synced_lines, line),
              plain_lines   |-> st.plain_lines,
              is_pure_music |-> pure]
        ELSE [synced_lines  |-> Append(st.synced_lines, line),
              plain_lines   |-> Append(st.plain_lines, strip(TagSub(s, 1))),
              is_pure_music |-> pure]

\* while plain_lines and plain_lines[0] == "": pop(0); the same at the end
TrimBlank(ls) ==
    IF \A i \in 1..Len(ls) : ls[i] = <<>> THEN <<>>
    ELSE LET a == CHOOSE i \in 1..Len(ls) :
                      ls[i] # <<>> /\ \A k \in 1..(i - 1) : ls[k] = <<>>
             b == CHOOSE i \in 1..Len(ls) :
                      ls[i] # <<>> /\ \A k \in (i + 1)..Len(ls) : ls[k] = <<>>
         IN  SubSeq(ls, a, b)

\* what parse_lrc_file returns after the scan: (synced_text, plain_text)
ParseResult(st) ==
    IF st.is_pure_music THEN << <<>>, <<>> >>
    ELSE << join(<<"\n">>, st.synced_lines), join(<<"\n">>, TrimBlank(st.plain_lines)) >>

RECURSIVE ScanAll(_, _, _)
ScanAll(ls, i, st) ==
    IF i > Len(ls) THEN st ELSE ScanAll(ls, i + 1, ScanBody(ls[i], st))

EmptyAcc == [synced_lines |-> <<>>, plain_lines |-> <<>>, is_pure_music |-> FALSE]

\* parse_lrc_file on a file's text, as one function
parse_lrc_file(text) ==
    ParseResult(ScanAll(splitlines(NormalizeNewlines(text, 1)), 1, EmptyAcc))

MaxLines == 2

Stamp1 == <<"[", "0", "0", ":", "0", "1", "]">>
Stamp2 == <<"[", "0", "0", ":", "0", "2", ".", "5", "0", "]">>
StampX == <<"[", "0", "0", ":", "0", "3", ".", "5", "-", "1", "]">>
Instrumental == <<"I", "n", "s", "t", "r", "u", "m", "e", "n", "t", "a", "l">>

SampleLines ==
    { <<>>,
      <<" ", "\t">>,
      Stamp1 \o <<"l", "a">>,
      Stamp1,
      <<"l", "a">>,
      Stamp1 \o <<"k", ":", "v">>,
      <<" ">> \o Stamp2 \o <<" ", "k", " ", "FWCOLON", " ", "v">>,
      StampX \o <<"k", ":", "v">>,
      Stamp1 \o <<"k", ":">>,
      <<"[", "a", "r", ":", "x", "]">>,
      <<"[", "t", "i", ":">> \o Instrumental \o <<"]">>,
      Stamp1 \o Instrumental,
      <<"i", "n", "s", "t", "r", "u">> \o Stamp2 \o <<"m", "e", "n", "t", "a", "l">>,
      Stamp1 \o <<"b", "y", ":">> \o Instrumental,
      Stamp1 \o PURE_MUSIC_KEYWORDS[1],
      <<"l", "a", " ">> \o PURE_MUSIC_KEYWORDS[4],
      <<"[", "0", "0", ":", "1", "]", "l", "a">>,
      Stamp1 \o Stamp2 \o <<" ", "l", "a", " ">>,
      <<"i", "n", "s", "t", "r", "u", " ", "m", "e", "n", "t", "a", "l">>,
      Stamp2 \o PURE_MUSIC_KEYWORDS[6] }

LineSeps == { <<"\n">>, <<"\r", "\n">>, <<"\r">> }

ParseIdle ==
    /\ raw = <<>> /\ lines = <<>> /\ pos = 0 /\ synced_lines = <<>>
    /\ plain_lines = <<>> /\ is_pure_music = FALSE /\ ppc = "idle" /\ parsed = <<>>

ParseInit ==
    /\ raw \in { join(sep, ls) : ls \in SeqsUpTo(SampleLines, MaxLines), sep \in LineSeps }
    /\ lines = <<>> /\ pos = 0 /\ synced_lines = <<>> /\ plain_lines = <<>>
    /\ is_pure_music = FALSE /\ ppc = "read" /\ parsed = <<>>

\* lines 325-331
ReadLines ==
    /\ ppc = "read"
    /\ lines' = splitlines(NormalizeNewlines(raw, 1))
    /\ pos' = 1
    /\ synced_lines' = <<>> /\ plain_lines' = <<>> /\ is_pure_music' = FALSE
    /\ ppc' = "scan"
    /\ UNCHANGED <<raw, parsed>>

\* one iteration of the loop of lines 333-361
ScanLine ==
    /\ ppc = "scan" /\ pos <= Len(lines)
    /\ LET st == ScanBody(lines[pos], [synced_lines |-> synced_lines,
                                        plain_lines |-> plain_lines,
                                        is_pure_music |-> is_pure_music])
       IN  /\ synced_lines' = st.synced_lines
           /\ plain_lines' = st.plain_lines
           /\ is_pure_music' = st.is_pure_music
    /\ pos' = pos + 1
    /\ UNCHANGED <<raw, lines, ppc, parsed>>

\* lines 363-375
FinishParse ==
    /\ ppc = "scan" /\ pos > Len(lines)
    /\ parsed' = ParseResult([synced_lines |-> synced_lines,
                              plain_lines |-> plain_lines,
                              is_pure_music |-> is_pure_music])
    /\ ppc' = "done"
    /\ UNCHANGED <<raw, lines, pos, synced_lines, plain_lines, is_pure_music>>

(***************************************************************************)
(* split_artists, match_artists, parse_lrc_filename                        *)
(***************************************************************************)
\* str.replace(pat, rep): non-overlapping occurrences, left to right
RECURSIVE ReplaceAll(_, _, _, _)
ReplaceAll(s, pat, rep, i) ==
    IF i > Len(s) THEN <<>>
    ELSE IF StartsAt(s, i, pat) THEN rep \o ReplaceAll(s, pat, rep, i + Len(pat))
         ELSE <<s[i]>> \o ReplaceAll(s, pat, rep, i + 1)

\* the end of the whitespace run that starts at s[i]
RECURSIVE SpaceRunEnd(_, _)
SpaceRunEnd(s, i) ==
    IF i + 1 <= Len(s) /\ IsSpace(s[i + 1]) THEN SpaceRunEnd(s, i + 1) ELSE i

FeatTokens == << <<"f","e","a","t">>,
                 <<"f","e","a","t","u","r","i","n","g">>,
                 <<"f","t">> >>

\* \b(feat|featuring|ft)\.?\s+ at s[i]: the index of the last character
\* matched, 0 when there is no match at i
FeatEndAt(s, i) ==
    LET Dot(t)  == IF CharAt(s, i + Len(t), ".") THEN 1 ELSE 0
        Ok(t)   == /\ StartsAt(s, i, t)
                   /\ i + Len(t) + Dot(t) <= Len(s)
                   /\ IsSpace(s[i + Len(t) + Dot(t)])
    IN  IF (i = 1 \/ ~IsWord(s[i - 1])) /\ \E k \in 1..Len(FeatTokens) : Ok(FeatTokens[k])
        THEN LET k == CHOOSE k \in 1..Len(FeatTokens) : Ok(FeatTokens[k])
                 t == FeatTokens[k]
             IN  SpaceRunEnd(s, i + Len(t) + Dot(t))
        ELSE 0

\* re.sub(r"\b(feat|featuring|ft)\.?\s+", ",", s)
RECURSIVE FeatSub(_, _)
FeatSub(s, i) ==
    IF i > Len(s) THEN <<>>
    ELSE IF FeatEndAt(s, i) > 0 THEN <<",">> \o FeatSub(s, FeatEndAt(s, i) + 1)
         ELSE <<s[i]>> \o FeatSub(s, i + 1)

\* the connectors of the for loop, then the CJK comma
ArtistSeps == << <<" ", "&", " ">>, <<" ", "CJK_HE", " ">>, <<"/">>, <<";">>,
                 <<"IDCOMMA">>, <<" ", "x", " ">>, <<" ", "TIMES", " ">>,
                 <<" ", "X", " ">>, <<"FWCOMMA">> >>

RECURSIVE ReplaceSeps(_, _)
ReplaceSeps(s, k) ==
    IF k > Len(ArtistSeps) THEN s
    ELSE ReplaceSeps(ReplaceAll(s, ArtistSeps[k], <<",">>, 1), k + 1)

\* s.split(",")
RECURSIVE SplitComma(_, _, _)
SplitComma(s, i, cur) ==
    IF i > Len(s) THEN <<cur>>
    ELSE IF s[i] = "," THEN <<cur>> \o SplitComma(s, i + 1, <<>>)
         ELSE SplitComma(s, i + 1, Append(cur, s[i]))

\* strip every piece, drop the empty ones, keep the first of equal ones
RECURSIVE CleanPieces(_, _, _)
CleanPieces(ps, i, acc) ==
    IF i > Len(ps) THEN acc
    ELSE LET a == strip(ps[i])
         IN  IF a = <<>> \/ \E k \in 1..Len(acc) : acc[k] = a
             THEN CleanPieces(ps, i + 1, acc)
             ELSE CleanPieces(ps, i + 1, Append(acc, a))

split_artists(s) ==
    LET s1 == FeatSub(lower(strip(s)), 1)
        s2 == ReplaceSeps(s1, 1)
    IN  CleanPieces(SplitComma(s2, 1, <<>>), 1, <<>>)

match_artists(mp3_artists, lrc_artists) ==
    LET mp3_set == {normalize_name(mp3_artists[i]) : i \in 1..Len(mp3_artists)}
        lrc_set == {normalize_name(lrc_artists[i]) : i \in 1..Len(lrc_artists)}
    IN  mp3_set \cap lrc_set # {}

\* Path.stem and Path.suffix of a file name
LastDot(name) ==
    IF \E i \in 2..Len(name) : name[i] = "."
    THEN CHOOSE i \in 2..Len(name) : name[i] = "." /\ \A k \in (i + 1)..Len(name) : name[k] # "."
    ELSE 0
Stem(name)   == IF LastDot(name) = 0 THEN name ELSE SubSeq(name, 1, LastDot(name) - 1)
Suffix(name) == IF LastDot(name) = 0 THEN <<>> ELSE SubSeq(name, LastDot(name), Len(name))

DashSep == <<" ", "-", " ">>

\* parse_lrc_filename: <<artists, title_raw>>
parse_lrc_filename(name) ==
    LET stem == Stem(name)
    IN  IF ~Contains(stem, DashSep) THEN << <<>>, <<>> >>
        ELSE LET i == CHOOSE i \in 1..Len(stem) :
                          /\ StartsAt(stem, i, DashSep)
                          /\ \A k \in 1..(i - 1) : ~StartsAt(stem, k, DashSep)
             IN  << split_artists(Slice(stem, 1, i - 1)),
                    Slice(stem, i + 3, Len(stem)) >>

(***************************************************************************)
(* similar: difflib.SequenceMatcher(None, a, b).ratio()                    *)
(***************************************************************************)
\* the length of the common run of a[i..ahi] and b[j..bhi]
RECURSIVE RunLen(_, _, _, _, _, _)
RunLen(a, b, i, j, ahi, bhi) ==
    IF i <= ahi /\ j <= bhi /\ a[i] = b[j]
    THEN 1 + RunLen(a, b, i + 1, j + 1, ahi, bhi)
    ELSE 0

\* find_longest_match: <<i, j, k>>, the longest block, the earliest in a,
\* then the earliest in b; k = 0 when nothing matches
find_longest_match(a, b, alo, ahi, blo, bhi) ==
    LET Pairs == (alo..ahi) \X (blo..bhi)
        K(p)  == RunLen(a, b, p[1], p[2], ahi, bhi)
    IN  IF \A p \in Pairs : K(p) = 0 THEN <<alo, blo, 0>>
        ELSE LET best == CHOOSE p \in Pairs :
                     \A q \in Pairs :
                         \/ K(p) > K(q)
                         \/ K(p) = K(q) /\ p[1] < q[1]
                         \/ K(p) = K(q) /\ p[1] = q[1] /\ p[2] <= q[2]
             IN  <<best[1], best[2], K(best)>>

\* the sum of the sizes of get_matching_blocks
RECURSIVE MatchTotal(_, _, _, _, _, _)
MatchTotal(a, b, alo, ahi, blo, bhi) ==
    IF alo > ahi \/ blo > bhi THEN 0
    ELSE LET m == find_longest_match(a, b, alo, ahi, blo, bhi)
         IN  IF m[3] = 0 THEN 0
             ELSE m[3]
                  + MatchTotal(a, b, alo, m[1] - 1, blo, m[2] - 1)
                  + MatchTotal(a, b, m[1] + m[3], ahi, m[2] + m[3], bhi)

\* a similarity is the fraction num/den
Frac(n, d) == [num |-> n, den |-> d]
FracLess(x, y) == x.num * y.den < y.num * x.den
FracEq(x, y)   == x.num * y.den = y.num * x.den

\* ratio() = 2.0 * matches / (len(a) + len(b)), 1.0 for two empty strings
similar(a, b) ==
    IF Len(a) + Len(b) = 0 THEN Frac(1, 1)
    ELSE Frac(2 * MatchTotal(a, b, 1, Len(a), 1, Len(b)), Len(a) + Len(b))

(***************************************************************************)
(* find_lrc_for_track                                                      *)
(*                                                                         *)
(* A path is [dir, name], dir the sequence of directory names below        *)
(* SCRIPT_DIR; the pool is the sequence of the *.lrc paths in the order    *)
(* LRC_DIR.rglob yields them.  A track's metadata is [path, track,         *)
(* artist]; album and duration only reach the requests and the log.        *)
(***************************************************************************)
None == [dir |-> <<>>, name |-> <<>>]

\* lines 254-258: 0.95 when one loose title contains the other
TitleSim(mp3_title_loose, lrc_title_loose) ==
    IF Contains(lrc_title_loose, mp3_title_loose) \/ Contains(mp3_title_loose, lrc_title_loose)
    THEN Frac(19, 20)
    ELSE similar(mp3_title_loose, lrc_title_loose)

\* the threshold test with <= for <
BelowThresholdInclusive(title_sim) == ~FracLess(Frac(3, 5), title_sim)

\* line 260: title_sim < 0.6
BelowThreshold(title_sim) == FracLess(title_sim, Frac(3, 5))

\* the body of the loop of lines 242-263 for one pool file: the candidates
\* it appends
CandidateOf(mp3_title_loose, mp3_artists, p) ==
    LET parsed_name    == parse_lrc_filename(p.name)
        lrc_artists    == parsed_name[1]
        lrc_title_raw  == parsed_name[2]
        lrc_title_loose == normalize_title_loose(lrc_title_raw)
    IN  IF lrc_title_raw = <<>> \/ lrc_artists = <<>> THEN <<>>
        ELSE IF ~match_artists(mp3_artists, lrc_artists) THEN <<>>
        ELSE IF lrc_title_loose = <<>> THEN <<>>
        ELSE IF BelowThreshold(TitleSim(mp3_title_loose, lrc_title_loose)) THEN <<>>
        ELSE << [path |-> p, sim |-> TitleSim(mp3_title_loose, lrc_title_loose)] >>

RECURSIVE CollectCandidates(_, _, _, _)
CollectCandidates(mp3_title_loose, mp3_artists, pool, i) ==
    IF i > Len(pool) THEN <<>>
    ELSE CandidateOf(mp3_title_loose, mp3_artists, pool[i])
         \o CollectCandidates(mp3_title_loose, mp3_artists, pool, i + 1)

\* where a stable descending sort puts c among the sorted cs: after every
\* entry whose similarity is not smaller
InsertDesc(cs, c) ==
    LET n == Cardinality({k \in 1..Len(cs) : ~FracLess(cs[k].sim, c.sim)})
    IN  Slice(cs, 1, n) \o <<c>> \o Slice(cs, n + 1, Len(cs))

\* candidates.sort(key=lambda x: x[1], reverse=True)
RECURSIVE SortDesc(_, _, _)
SortDesc(cs, i, acc) ==
    IF i > Len(cs) THEN acc ELSE SortDesc(cs, i + 1, InsertDesc(acc, cs[i]))

\* lines 234-270: the sorted candidate list; empty also when the track's
\* loose title is empty (return None before the scan)
FindCandidates(m, pool) ==
    LET mp3_title_loose == normalize_title_loose(m.track)
    IN  IF mp3_title_loose = <<>> THEN <<>>
        ELSE SortDesc(CollectCandidates(mp3_title_loose, split_artists(m.artist), pool, 1),
                      1, <<>>)

\* ch.isdigit() and int(ch), on ch = input(...).strip()
IsDigitStr(ch) == ch # <<>> /\ \A i \in 1..Len(ch) : ch[i] \in Digits
DigitVal(c) == CHOOSE d \in 0..9 : <<"0","1","2","3","4","5","6","7","8","9">>[d + 1] = c
RECURSIVE IntOf(_)
IntOf(ch) ==
    IF ch = <<>> THEN 0 ELSE 10 * IntOf(SubSeq(ch, 1, Len(ch) - 1)) + DigitVal(ch[Len(ch)])

\* lines 281-285: the index an input selects among n paths, 0 when the input
\* is rejected
ChoiceIndex(typed, n) ==
    LET ch == strip(typed)
    IN  IF IsDigitStr(ch) /\ 1 <= IntOf(ch) /\ IntOf(ch) <= n THEN IntOf(ch) ELSE 0

\* what the operator may type at a prompt
Typed == { <<"1">>, <<"2">>, <<" ", "3">>, <<"0">>, <<"1", "2">>, <<"y">>, <<>>,
           <<"Y", "e", "s", " ">>, <<"n">> }

(***************************************************************************)
(* find_lrc_for_track as a process: scan and sort, then the index prompt   *)
(***************************************************************************)
MaxPool == 3

LrcExt == <<".", "l", "r", "c">>
Faded  == <<"F", "a", "d", "e", "d">>

FindTracks ==
    { [path |-> None, track |-> Faded, artist |-> <<"A", "b", " ", "&", " ", "C", "d">>],
      [path |-> None, track |-> <<"f", "a", "d", "e", "d", " ", "V", "e", "r", ".", "2">>,
                      artist |-> <<"c", "d", " ", "f", "e", "a", "t", ".", " ", "e", "f">>],
      [path |-> None, track |-> <<"(", "L", "i", "v", "e", ")">>, artist |-> <<"a", "b">>] }

FindNames ==
    { <<"a", "b", " ", "-", " ">> \o Faded \o LrcExt,
      <<"A", "B", " ", "-", " ", "f", "a", "d", "e", "d", " ", "(", "r", "e", "m", "i", "x", ")">> \o LrcExt,
      <<"c", "d", " ", "-", " ", "F", "a", "t", "e", "d">> \o LrcExt,
      <<"a", "b", "/", "e", "f", " ", "-", " ", "F", "x", "d", "x", "d">> \o LrcExt,
      <<"a", "b", " ", "-", " ", "F", "a", "x", "y", "z">> \o LrcExt,
      <<"z", "z", " ", "-", " ">> \o Faded \o LrcExt,
      <<"a", "b", " ", "-", " ", "(", "l", "i", "v", "e", ")">> \o LrcExt,
      Faded \o LrcExt }

FindFiles ==
    { [dir |-> <<"lrc-files">>, name |-> n] : n \in FindNames }
    \cup { [dir |-> <<"lrc-files", "d1">>, name |-> <<"a", "b", " ", "-", " ">> \o Faded \o LrcExt] }

\* the sequences of distinct files, up to n long
RECURSIVE DistinctSeqs(_, _)
DistinctSeqs(S, n) ==
    IF n = 0 THEN {<<>>}
    ELSE LET shorter == DistinctSeqs(S, n - 1)
         IN  shorter \cup UNION { { Append(q, x) : x \in S \ {q[i] : i \in 1..Len(q)} } :
                                   q \in { r \in shorter : Len(r) = n - 1 } }

FindIdle ==
    /\ fTrack = [path |-> None, track |-> <<>>, artist |-> <<>>] /\ fPool = <<>> /\ fCands = <<>> /\ fpc = "idle"
    /\ fIn = <<>> /\ fRet = None

FindInit ==
    /\ fTrack \in FindTracks
    /\ fPool \in DistinctSeqs(FindFiles, MaxPool)
    /\ fCands = <<>> /\ fpc = "start" /\ fIn = <<>> /\ fRet = None

\* lines 234-273
FindScan ==
    /\ fpc = "start"
    /\ fCands' = FindCandidates(fTrack, fPool)
    /\ IF Len(fCands') = 0 THEN fpc' = "done" /\ fRet' = None
       ELSE IF Len(fCands') = 1 THEN fpc' = "done" /\ fRet' = fCands'[1].path
       ELSE fpc' = "choose" /\ fRet' = fRet
    /\ UNCHANGED <<fTrack, fPool, fIn>>

\* one iteration of the loop of lines 280-286, the operator's input accepted
FindChoose ==
    /\ fpc = "choose"
    /\ \E typed \in Typed :
          /\ ChoiceIndex(typed, Len(fCands)) > 0
          /\ fIn' = typed
          /\ fRet' = fCands[ChoiceIndex(typed, Len(fCands))].path
    /\ fpc' = "done"
    /\ UNCHANGED <<fTrack, fPool, fCands>>

\* one iteration of the loop of lines 280-286, the input rejected
FindReprompt ==
    /\ fpc = "choose"
    /\ \E typed \in Typed : ChoiceIndex(typed, Len(fCands)) = 0
    /\ UNCHANGED findVars

(***************************************************************************)
(* The file system and move_after_done                                     *)
(*                                                                         *)
(* fs maps every existing file's path to its content; a content is named   *)
(* by the path the file had when the run started.  dirs is the set of      *)
(* existing directories below the four roots.                              *)
(***************************************************************************)
TRACKS_DIR     == "tracks"
LRC_DIR        == "lrc-files"
DONE_LRC_DIR   == "done-lrc-files"
DONE_TRACK_DIR == "done-tracks"

Without(fsys, p) == [q \in DOMAIN fsys \ {p} |-> fsys[q]]
With(fsys, p, c) == [q \in DOMAIN fsys \cup {p} |-> IF q = p THEN c ELSE fsys[q]]

\* target.with_name(target.stem + "_dup" + target.suffix)
DupName(name) == Stem(name) \o <<"_", "d", "u", "p">> \o Suffix(name)

\* lines 512-516 and 521-525: the destination of a move into a done area
DoneTarget(fsys, doneDir, name) ==
    IF [dir |-> <<doneDir>>, name |-> name] \in DOMAIN fsys
    THEN [dir |-> <<doneDir>>, name |-> DupName(name)]
    ELSE [dir |-> <<doneDir>>, name |-> name]

Platforms == {"posix", "windows"}

\* Path.rename(dst): on POSIX an existing dst is replaced silently, on
\* Windows FileExistsError is raised and nothing changes
Rename(fsys, src, dst, plat) ==
    IF dst \in DOMAIN fsys /\ plat = "windows"
    THEN [fs |-> fsys, raised |-> TRUE]
    ELSE [fs |-> With(Without(fsys, src), dst, fsys[src]), raised |-> FALSE]

\* delete_empty_dirs(root): the directories left
delete_empty_dirs(fsys, ds, root) ==
    { d \in ds : ~(d[1] = root /\ Len(d) > 1 /\ \A p \in DOMAIN fsys : p.dir # d) }

\* move_after_done(meta, lrc_path): the file system and directories after it;
\* an exception leaves the try block at once
move_after_done(fsys, ds, m, lrc, plat) ==
    LET moveLrc == lrc # None /\ lrc \in DOMAIN fsys
        r1 == IF moveLrc
              THEN Rename(fsys, lrc, DoneTarget(fsys, DONE_LRC_DIR, lrc.name), plat)
              ELSE [fs |-> fsys, raised |-> FALSE]
        moveMp3 == ~r1.raised /\ m.path \in DOMAIN r1.fs
        r2 == IF moveMp3
              THEN Rename(r1.fs, m.path, DoneTarget(r1.fs, DONE_TRACK_DIR, m.path.name), plat)
              ELSE r1
    IN  IF r2.raised THEN [fs |-> r2.fs, dirs |-> ds]
        ELSE [fs |-> r2.fs,
              dirs |-> delete_empty_dirs(r2.fs, delete_empty_dirs(r2.fs, ds, LRC_DIR),
                                         TRACKS_DIR)]

(***************************************************************************)
(* The run: the files it starts with                                       *)
(***************************************************************************)
MaxTracks == 2

Mp3Name == <<"s", ".", "m", "p", "3">>
LrcName == <<"a", "b", " ", "-", " ">> \o Faded \o LrcExt

TrackFiles ==
    { [dir |-> <<TRACKS_DIR>>, name |-> Mp3Name],
      [dir |-> <<TRACKS_DIR, "d1">>, name |-> Mp3Name],
      [dir |-> <<TRACKS_DIR, "d2">>, name |-> Mp3Name] }

\* read_track_metadata: the tags of each track file
read_track_metadata(p) ==
    IF p.dir = <<TRACKS_DIR>>
    THEN [path |-> p, track |-> Faded, artist |-> <<"A", "b">>]
    ELSE IF p.dir = <<TRACKS_DIR, "d1">>
    THEN [path |-> p, track |-> <<"f", "a", "d", "e", "d", " ", "(", "L", "i", "v", "e", ")">>,
          artist |-> <<"a", "b", " ", "&", " ", "c", "d">>]
    ELSE [path |-> p, track |-> <<"Z", "z", "z">>, artist |-> <<"a", "b">>]

LrcFiles ==
    { [dir |-> <<LRC_DIR>>, name |-> LrcName],
      [dir |-> <<LRC_DIR, "d1">>, name |-> LrcName],
      [dir |-> <<LRC_DIR>>, name |-> <<"c", "d", " ", "-", " ", "F", "a", "t", "e", "d">> \o LrcExt] }

\* read_text_any: the text of each lyric file, by its content
read_text_any(content) ==
    IF content.dir = <<LRC_DIR, "d1">> THEN Stamp1 \o Instrumental
    ELSE IF content.name = LrcName
    THEN Stamp1 \o <<"k", ":", "v", "\n">> \o Stamp2 \o <<"l", "a", "\n">>
    ELSE <<"l", "a">>

\* what earlier runs may have left in the done areas
DoneSeeds ==
    { [dir |-> <<DONE_TRACK_DIR>>, name |-> Mp3Name],
      [dir |-> <<DONE_TRACK_DIR>>, name |-> DupName(Mp3Name)],
      [dir |-> <<DONE_LRC_DIR>>, name |-> LrcName],
      [dir |-> <<DONE_LRC_DIR>>, name |-> DupName(LrcName)] }

DoneStarts ==
    { S \in SUBSET DoneSeeds :
        \A p \in S : p.name \in {DupName(Mp3Name), DupName(LrcName)}
                      => \E q \in S : q.dir = p.dir /\ DupName(q.name) = p.name }

InDone(p) == p.dir \in {<<DONE_TRACK_DIR>>, <<DONE_LRC_DIR>>}

\* LRC_DIR.rglob("*.lrc"): the lyric files, in any order
LrcPool(fsys) == { p \in DOMAIN fsys : p.dir[1] = LRC_DIR }
Orders(S) == { q \in DistinctSeqs(S, Cardinality(S)) : Len(q) = Cardinality(S) }

NoInput == <<"NoInput">>
ConfirmTyped == { <<"y">>, <<"Y", "e", "s", " ">>, <<>> }
IndexTyped == { <<"1">>, <<" ", "2">>, <<"0">>, <<"x">> }

\* a prompt that takes everything but "n" for a yes
AcceptsUnlessNo(typed) == lower(strip(typed)) \notin { <<"n">>, <<"n", "o">> }

\* ch = input(...).strip().lower(); ch in ("y", "yes")
Accepts(typed) == lower(strip(typed)) \in { <<"y">>, <<"y", "e", "s">> }

NoTrack == [path |-> None, track |-> <<>>, artist |-> <<>>]

MainIdle ==
    /\ auto_yes = FALSE /\ dry_run = FALSE
    /\ fs = <<>> /\ dirs = {} /\ fs0 = <<>> /\ fsStart = <<>>
    /\ metas = <<>> /\ meta = NoTrack /\ pc = "idle" /\ branch = "none"
    /\ cached = "none" /\ ext = "none" /\ use_external = FALSE
    /\ lrc_path = None /\ cands = <<>> /\ asked = {} /\ previewed = FALSE
    /\ uploads = <<>> /\ upload_ok = FALSE /\ moved = FALSE
    /\ answer = [external |-> NoInput, local |-> NoInput, index |-> NoInput]
    /\ payload = <<>> /\ outcome = "none"

\* main(), lines 613-634: the flags, the done areas, the list of tracks
MainInit ==
    /\ auto_yes \in BOOLEAN /\ dry_run \in BOOLEAN
    /\ \E tracks \in SUBSET TrackFiles, lrcs \in SUBSET LrcFiles, done \in DoneStarts :
          /\ tracks # {} /\ Cardinality(tracks) <= MaxTracks
          /\ fs = [p \in tracks \cup lrcs \cup done |-> p]
          /\ dirs = { p.dir : p \in { q \in tracks \cup lrcs : Len(q.dir) > 1 } }
          /\ \E order \in Orders(tracks) \cup { <<t>> : t \in tracks } :
                metas = [i \in 1..Len(order) |-> read_track_metadata(order[i])]
    /\ fs0 = fs /\ fsStart = fs
    /\ meta = NoTrack /\ pc = "main" /\ branch = "none"
    /\ cached = "none" /\ ext = "none" /\ use_external = FALSE
    /\ lrc_path = None /\ cands = <<>> /\ asked = {} /\ previewed = FALSE
    /\ uploads = <<>> /\ upload_ok = FALSE /\ moved = FALSE
    /\ answer = [external |-> NoInput, local |-> NoInput, index |-> NoInput]
    /\ payload = <<>> /\ outcome = "none"

(***************************************************************************)
(* main's loop and process_track.  pc is the place the run waits at: a     *)
(* request to the service, the operator's input, or the next step.         *)
(***************************************************************************)
PerTrack == <<branch, cached, ext, use_external, lrc_path, cands, asked,
              previewed, uploads, upload_ok, moved, answer, payload>>
Run == <<auto_yes, dry_run, fs0>>

\* process_track returns
Return(o) == pc' = "main" /\ outcome' = o

\* lines 636-638: the next track; process_track starts (line 536)
NextTrack ==
    /\ pc = "main" /\ metas # <<>>
    /\ meta' = Head(metas) /\ metas' = Tail(metas)
    /\ fsStart' = fs
    /\ branch' = "none" /\ cached' = "none" /\ ext' = "none"
    /\ use_external' = FALSE /\ lrc_path' = None /\ cands' = <<>>
    /\ asked' = {} /\ previewed' = FALSE /\ uploads' = <<>>
    /\ upload_ok' = FALSE /\ moved' = FALSE
    /\ answer' = [external |-> NoInput, local |-> NoInput, index |-> NoInput]
    /\ payload' = <<>> /\ outcome' = "none"
    /\ pc' = "get_cached"
    /\ UNCHANGED <<Run, fs, dirs>>

\* line 641
MainDone ==
    /\ pc = "main" /\ metas = <<>>
    /\ pc' = "exit"
    /\ UNCHANGED <<Run, fs, dirs, fsStart, metas, meta, PerTrack, outcome>>

\* lines 539-542: get_cached returns a record
GetCachedHit ==
    /\ pc = "get_cached"
    /\ cached' = "hit" /\ branch' = "cached" /\ pc' = "find"
    /\ UNCHANGED <<Run, fs, dirs, fsStart, metas, meta, ext, use_external, lrc_path,
                   cands, asked, previewed, uploads, upload_ok, moved, answer,
                   payload, outcome>>

\* lines 539-540: get_cached returns None (not found, or the request failed)
GetCachedMiss ==
    /\ pc = "get_cached"
    /\ cached' = "miss" /\ pc' = "get_external"
    /\ UNCHANGED <<Run, fs, dirs, fsStart, metas, meta, branch, ext, use_external,
                   lrc_path, cands, asked, previewed, uploads, upload_ok, moved,
                   answer, payload, outcome>>

\* lines 565-571: use_external is set
UseExternal ==
    IF dry_run THEN Return("DryRun") ELSE pc' = "upload_external" /\ outcome' = outcome

\* lines 550-563: get_external returns a record; the preview; --yes or the prompt
GetExternalHit ==
    /\ pc = "get_external"
    /\ ext' = "hit" /\ previewed' = TRUE
    /\ IF auto_yes
       THEN use_external' = TRUE /\ asked' = asked /\ UseExternal
       ELSE /\ use_external' = FALSE /\ asked' = asked \cup {"external"}
            /\ pc' = "ask_external" /\ outcome' = outcome
    /\ UNCHANGED <<Run, fs, dirs, fsStart, metas, meta, branch, cached, lrc_path,
                   cands, uploads, upload_ok, moved, answer, payload>>

\* lines 550-551, 585: get_external returns None
GetExternalMiss ==
    /\ pc = "get_external"
    /\ ext' = "miss" /\ branch' = "local" /\ pc' = "find"
    /\ UNCHANGED <<Run, fs, dirs, fsStart, metas, meta, cached, use_external,
                   lrc_path, cands, asked, previewed, uploads, upload_ok, moved,
                   answer, payload, outcome>>

\* lines 561-582: the operator answers the external prompt
AnswerExternal ==
    /\ pc = "ask_external"
    /\ \E typed \in ConfirmTyped :
          /\ answer' = [answer EXCEPT !.external = typed]
          /\ IF Accepts(typed)
             THEN use_external' = TRUE /\ branch' = branch /\ UseExternal
             ELSE /\ use_external' = FALSE /\ branch' = "local"
                  /\ pc' = "find" /\ outcome' = outcome
    /\ UNCHANGED <<Run, fs, dirs, fsStart, metas, meta, cached, ext, lrc_path,
                   cands, asked, previewed, uploads, upload_ok, moved, payload>>

\* lines 573-580: where process_track goes after uploader.upload returned ok
AfterExternalUpload(ok) == IF ok THEN "find" ELSE "return"

\* lines 570-580: uploader.upload with the external record
UploadExternal ==
    /\ pc = "upload_external"
    /\ \E ok \in BOOLEAN :
          /\ upload_ok' = ok
          /\ IF AfterExternalUpload(ok) = "find"
             THEN branch' = "external" /\ pc' = "find" /\ outcome' = outcome
             ELSE branch' = branch /\ Return("UploadFailed")
    /\ uploads' = Append(uploads, "external")
    /\ payload' = <<"external">>
    /\ UNCHANGED <<Run, fs, dirs, fsStart, metas, meta, cached, ext, use_external,
                   lrc_path, cands, asked, previewed, moved, answer>>

\* after find_lrc_for_track returned path (lines 543, 577, 586-597)
AfterFind(path, askedNow) ==
    IF branch \in {"cached", "external"}
    THEN /\ pc' = "move" /\ outcome' = outcome
         /\ previewed' = previewed /\ payload' = payload /\ asked' = askedNow
    ELSE IF path = None
    THEN /\ Return("NoLocalMatch")
         /\ previewed' = previewed /\ payload' = payload /\ asked' = askedNow
    ELSE /\ payload' = <<"local">> \o parse_lrc_file(read_text_any(fs[path]))
         /\ previewed' = TRUE
         /\ IF dry_run THEN Return("DryRun") /\ asked' = askedNow
            ELSE IF auto_yes THEN pc' = "upload_local" /\ outcome' = outcome /\ asked' = askedNow
            ELSE pc' = "ask_local" /\ outcome' = outcome /\ asked' = askedNow \cup {"local"}

\* find_lrc_for_track up to its return or its prompt (lines 234-278)
Find ==
    /\ pc = "find"
    /\ \E order \in Orders(LrcPool(fs)) :
          /\ cands' = FindCandidates(meta, order)
          /\ IF Len(cands') = 0 THEN lrc_path' = None /\ AfterFind(None, asked)
             ELSE IF Len(cands') = 1
             THEN lrc_path' = cands'[1].path /\ AfterFind(cands'[1].path, asked)
             ELSE /\ lrc_path' = lrc_path /\ pc' = "choose"
                  /\ asked' = asked \cup {"index"}
                  /\ UNCHANGED <<previewed, payload, outcome>>
    /\ UNCHANGED <<Run, fs, dirs, fsStart, metas, meta, branch, cached, ext,
                   use_external, uploads, upload_ok, moved, answer>>

\* lines 280-285: an accepted index
Choose ==
    /\ pc = "choose"
    /\ \E typed \in IndexTyped :
          /\ ChoiceIndex(typed, Len(cands)) > 0
          /\ answer' = [answer EXCEPT !.index = typed]
          /\ lrc_path' = cands[ChoiceIndex(typed, Len(cands))].path
          /\ AfterFind(cands[ChoiceIndex(typed, Len(cands))].path, asked)
    /\ UNCHANGED <<Run, fs, dirs, fsStart, metas, meta, branch, cached, ext,
                   use_external, cands, uploads, upload_ok, moved>>

\* lines 280-286: a rejected input, and the prompt again
Reprompt ==
    /\ pc = "choose"
    /\ \E typed \in IndexTyped : ChoiceIndex(typed, Len(cands)) = 0
    /\ UNCHANGED mainVars

\* lines 543-547, 577-580, 608: move_after_done, then the return
Move ==
    /\ pc = "move"
    /\ \E plat \in Platforms :
          LET r == move_after_done(fs, dirs, meta, lrc_path, plat)
          IN  fs' = r.fs /\ dirs' = r.dirs
    /\ moved' = TRUE
    /\ IF branch = "cached" THEN previewed' = TRUE /\ Return("CachedHit")
       ELSE IF branch = "external" THEN previewed' = previewed /\ Return("ExternalUsed")
       ELSE previewed' = previewed /\ Return("LocalUsed")
    /\ UNCHANGED <<Run, fsStart, metas, meta, branch, cached, ext, use_external,
                   lrc_path, cands, asked, uploads, upload_ok, answer, payload>>

\* lines 599-603: the operator answers the local prompt
AnswerLocal ==
    /\ pc = "ask_local"
    /\ \E typed \in ConfirmTyped :
          /\ answer' = [answer EXCEPT !.local = typed]
          /\ IF Accepts(typed) THEN pc' = "upload_local" /\ outcome' = outcome
             ELSE Return("UserDeclined")
    /\ UNCHANGED <<Run, fs, dirs, fsStart, metas, meta, branch, cached, ext,
                   use_external, lrc_path, cands, asked, previewed, uploads,
                   upload_ok, moved, payload>>

\* the move made whatever the upload returned
AfterLocalUploadAlwaysMove(ok) == "move"

\* lines 606-610: where process_track goes after uploader.upload returned ok
AfterLocalUpload(ok) == IF ok THEN "move" ELSE "return"

\* lines 606-610: uploader.upload with the local lyrics
UploadLocal ==
    /\ pc = "upload_local"
    /\ \E ok \in BOOLEAN :
          /\ upload_ok' = ok
          /\ IF AfterLocalUpload(ok) = "move" THEN pc' = "move" /\ outcome' = outcome
             ELSE Return("UploadFailed")
    /\ uploads' = Append(uploads, "local")
    /\ UNCHANGED <<Run, fs, dirs, fsStart, metas, meta, branch, cached, ext,
                   use_external, lrc_path, cands, asked, previewed, moved, answer,
                   payload>>

(***************************************************************************)
(* Specifications                                                          *)
(***************************************************************************)
NormOnly  == UNCHANGED <<parseVars, findVars, mainVars>>
ParseOnly == UNCHANGED <<normVars, findVars, mainVars>>
FindOnly  == UNCHANGED <<normVars, parseVars, mainVars>>
MainOnly  == UNCHANGED <<normVars, parseVars, findVars>>

\* a run of main()
Init == MainInit /\ NormIdle /\ ParseIdle /\ FindIdle

Next ==
    \/ NextTrack /\ MainOnly
    \/ MainDone /\ MainOnly
    \/ GetCachedHit /\ MainOnly
    \/ GetCachedMiss /\ MainOnly
    \/ GetExternalHit /\ MainOnly
    \/ GetExternalMiss /\ MainOnly
    \/ AnswerExternal /\ MainOnly
    \/ UploadExternal /\ MainOnly
    \/ Find /\ MainOnly
    \/ Choose /\ MainOnly
    \/ Reprompt /\ MainOnly
    \/ Move /\ MainOnly
    \/ AnswerLocal /\ MainOnly
    \/ UploadLocal /\ MainOnly

Spec == Init /\ [][Next]_vars

\* a normaliser applied to a string, and again to its result
InitNorm == NormInit /\ ParseIdle /\ FindIdle /\ MainIdle

NextNorm ==
    \/ ApplyNormalizeName /\ NormOnly
    \/ ApplyNormalizeTitle /\ NormOnly

SpecNorm == InitNorm /\ [][NextNorm]_vars

\* parse_lrc_file on a file's text
InitParse == ParseInit /\ NormIdle /\ FindIdle /\ MainIdle

NextParse ==
    \/ ReadLines /\ ParseOnly
    \/ ScanLine /\ ParseOnly
    \/ FinishParse /\ ParseOnly

SpecParse == InitParse /\ [][NextParse]_vars

\* find_lrc_for_track on a track and a pool
InitFind == FindInit /\ NormIdle /\ ParseIdle /\ MainIdle

NextFind ==
    \/ FindScan /\ FindOnly
    \/ FindChoose /\ FindOnly
    \/ FindReprompt /\ FindOnly

SpecFind == InitFind /\ [][NextFind]_vars

(***************************************************************************)
(* Properties of a run of main() (Spec)                                    *)
(***************************************************************************)
Waiting == pc \in {"choose", "ask_external", "ask_local"}
YesTyped == { <<"y">>, <<"Y", "e", "s", " ">> }
Stopped == {"UploadFailed", "UserDeclined", "NoLocalMatch"}

\* C1: in dry-run mode move_after_done is never executed and every file
\* stays where it was when the run started.
C1_DryRunMovesNothing ==
    dry_run => (~moved /\ fs = fs0)

\* C2: in dry-run mode no confirmation prompt is issued, no upload is
\* attempted, and once a preview was shown the track's processing is over.
C2_DryRunStopsAfterPreview ==
    dry_run => /\ asked \cap {"external", "local"} = {}
               /\ pc \notin {"ask_external", "ask_local"}
               /\ uploads = <<>>
               /\ previewed => pc \in {"main", "exit"}

\* C3: for one track at most one upload is attempted; an upload of the
\* external record only after a cache miss, an external hit and an accepted
\* prompt (or --yes); an upload of local lyrics only after a cache miss, a
\* selected local file and an accepted prompt (or --yes); none on a cache
\* hit, without a local candidate, or after the operator declined.
C3_UploadOnlyWhenAccepted ==
    /\ Len(uploads) <= 1
    /\ \A i \in 1..Len(uploads) :
          /\ cached = "miss"
          /\ uploads[i] = "external" =>
                /\ ext = "hit" /\ use_external
                /\ auto_yes \/ answer.external \in YesTyped
          /\ uploads[i] = "local" =>
                /\ lrc_path # None /\ lrc_path \in DOMAIN fsStart
                /\ auto_yes \/ answer.local \in YesTyped
    /\ cached = "hit" => uploads = <<>>
    /\ outcome \in {"NoLocalMatch", "UserDeclined"} => uploads = <<>>

\* C3 witness: the external record declined, the local lyrics accepted at
\* the prompt and uploaded.
C3_Witness ==
    /\ uploads = <<"local">> /\ ~auto_yes /\ ext = "hit"
    /\ answer.external = <<>> /\ answer.local = <<"Y", "e", "s", " ">>

\* C4: files are moved only after a cache hit or a successful upload; a
\* track that ended UploadFailed, UserDeclined or NoLocalMatch left every
\* file in place and is still in the track pool.
C4_MoveOnlyOnHitOrSuccess ==
    /\ moved => (cached = "hit" \/ upload_ok)
    /\ fs # fsStart => moved
    /\ outcome \in Stopped =>
          /\ ~moved /\ fs = fsStart
          /\ meta.path \in DOMAIN fs

\* C4 witness: a local upload failed for a track that had a local match.
C4_Witness ==
    /\ outcome = "UploadFailed" /\ uploads = <<"local">> /\ lrc_path # None
    /\ pc = "main"

\* C5: with --yes the run never waits for the operator's input.
C5_AutoYesNeverWaits ==
    auto_yes => (~Waiting /\ asked = {})

\* C8: a move never removes or changes a file that is in a done area, and a
\* file that leaves the pools arrives in its done area, under its own name
\* or, when that name is taken, under the name with _dup before the
\* extension.
C8_Step ==
    /\ \A p \in DOMAIN fs : InDone(p) => (p \in DOMAIN fs' /\ fs'[p] = fs[p])
    /\ \A src \in DOMAIN fs :
          (~InDone(src) /\ src \notin DOMAIN fs') =>
             LET area == IF src.dir[1] = LRC_DIR THEN DONE_LRC_DIR ELSE DONE_TRACK_DIR
                 own  == [dir |-> <<area>>, name |-> src.name]
                 dup  == [dir |-> <<area>>, name |-> DupName(src.name)]
             IN  IF own \in DOMAIN fs
                 THEN dup \in DOMAIN fs' /\ fs'[dup] = fs[src]
                 ELSE own \in DOMAIN fs' /\ fs'[own] = fs[src]

C8_DoneFilesKept == [][C8_Step]_vars

(***************************************************************************)
(* Properties of the normalisers (SpecNorm)                                *)
(***************************************************************************)
\* C6: normalize_name and normalize_title_loose are idempotent: applied to
\* its own result, each returns that result.
C6_NormalizersIdempotent ==
    Len(nOut) = 2 => nOut[2] = nOut[1]

(***************************************************************************)
(* Properties of parse_lrc_file (SpecParse)                                *)
(***************************************************************************)
\* the line, its timestamp tags removed and lowercased, holds a keyword
LineHasKeyword(line) ==
    \E k \in 1..Len(PURE_MUSIC_KEYWORDS) :
        Contains(lower(TagSub(line, 1)), PURE_MUSIC_KEYWORDS[k])

NonBlank(line) == \E i \in 1..Len(line) : ~IsSpace(line[i])

\* C7: once a non-blank line with an instrumental keyword was scanned the
\* flag is set for the rest of the scan, and parse_lrc_file returns empty
\* synced and plain text whatever the other lines are.
C7_InstrumentalOverrides ==
    /\ ppc = "scan" =>
          ((\E i \in 1..(pos - 1) : NonBlank(lines[i]) /\ LineHasKeyword(lines[i]))
              => is_pure_music)
    /\ ppc = "done" =>
          ((\E i \in 1..Len(lines) : NonBlank(lines[i]) /\ LineHasKeyword(lines[i]))
              => parsed = << <<>>, <<>> >>)

\* C7 witness: the keyword sits in a credit line, followed by a lyric line
\* without keyword.
C7_Witness ==
    /\ ppc = "done" /\ Len(lines) = 2
    /\ IsCreditLine(strip(lines[1])) /\ LineHasKeyword(lines[1])
    /\ NonBlank(lines[2]) /\ ~LineHasKeyword(lines[2]) /\ ~IsCreditLine(strip(lines[2]))
    /\ parsed = << <<>>, <<>> >>

\* C10: after the scan, before the trimming, the synced and the plain
\* accumulator have the same number of entries.
C10_AccumulatorsAligned ==
    (ppc = "scan" /\ pos > Len(lines)) => Len(synced_lines) = Len(plain_lines)

(***************************************************************************)
(* Properties of find_lrc_for_track (SpecFind)                             *)
(***************************************************************************)
TrackTitle == normalize_title_loose(fTrack.track)
FileTitle(p) == normalize_title_loose(parse_lrc_filename(p.name)[2])
ArtistsMeet(p) == match_artists(split_artists(fTrack.artist), parse_lrc_filename(p.name)[1])

\* 0.95 when one normalised title is a substring of the other, else the ratio
ClaimedSim(p) ==
    IF Contains(TrackTitle, FileTitle(p)) \/ Contains(FileTitle(p), TrackTitle)
    THEN Frac(19, 20)
    ELSE similar(TrackTitle, FileTitle(p))

AtLeastSixTenths(x) == 10 * x.num >= 6 * x.den

PoolIndex(p) == CHOOSE i \in 1..Len(fPool) : fPool[i] = p
CandPaths == { fCands[i].path : i \in 1..Len(fCands) }

\* descending by similarity, equal similarities in pool order, no repeats
RankedStable ==
    \A i, j \in 1..Len(fCands) :
        i < j => /\ ~FracLess(fCands[i].sim, fCands[j].sim)
                 /\ FracEq(fCands[i].sim, fCands[j].sim)
                       => PoolIndex(fCands[i].path) < PoolIndex(fCands[j].path)

\* nothing, the only candidate unprompted, or the candidate at the accepted index
Selected ==
    /\ Len(fCands) = 0 => (fpc = "done" /\ fRet = None /\ fIn = <<>>)
    /\ Len(fCands) = 1 => (fpc = "done" /\ fRet = fCands[1].path /\ fIn = <<>>)
    /\ (Len(fCands) > 1 /\ fpc = "done") =>
          /\ IsDigitStr(strip(fIn))
          /\ IntOf(strip(fIn)) \in 1..Len(fCands)
          /\ fRet = fCands[IntOf(strip(fIn))].path

\* C9 as stated: the candidates are exactly the pool files whose artists
\* meet the track's and whose similarity is at least 0.6, ranked
\* descending and stably; then the selection.
C9_CandidatesAsStated ==
    fpc # "start" =>
        /\ CandPaths = { fPool[i] : i \in { k \in 1..Len(fPool) :
                            ArtistsMeet(fPool[k]) /\ AtLeastSixTenths(ClaimedSim(fPool[k])) } }
        /\ \A i \in 1..Len(fCands) : FracEq(fCands[i].sim, ClaimedSim(fCands[i].path))
        /\ RankedStable
        /\ Selected

\* C9 amended: no candidate when the track's normalised title is empty;
\* otherwise exactly the pool files with a non-empty normalised title whose
\* artists meet the track's and whose similarity is at least 0.6, ranked
\* descending and stably; then the selection.
C9_CandidatesAmended ==
    fpc # "start" =>
        /\ CandPaths =
             IF TrackTitle = <<>> THEN {}
             ELSE { fPool[i] : i \in { k \in 1..Len(fPool) :
                        /\ FileTitle(fPool[k]) # <<>>
                        /\ ArtistsMeet(fPool[k])
                        /\ AtLeastSixTenths(ClaimedSim(fPool[k])) } }
        /\ Len(fCands) = Cardinality(CandPaths)
        /\ \A i \in 1..Len(fCands) : FracEq(fCands[i].sim, ClaimedSim(fCands[i].path))
        /\ RankedStable
        /\ Selected

\* C9 witness: three candidates, the first two with equal similarity, a
\* third on the threshold, and the operator chose the second.
C9_Witness ==
    /\ fpc = "done" /\ Len(fCands) = 3
    /\ FracEq(fCands[1].sim, fCands[2].sim)
    /\ FracEq(fCands[3].sim, Frac(3, 5))
    /\ fIn = <<"2">> /\ fRet = fCands[2].path

=============================================================================
